---- MODULE Spec2Model ----
(***************************************************************************)
(* Model of src/analytics_project/data_preparation/prepare_customers_data.py *)
(*                                                                         *)
(* A table (pandas DataFrame) is a record                                  *)
(*     [kinds |-> <<"num" | "cat", ...>>, rows |-> <<row, ...>>]           *)
(* where kinds gives the dtype family of each column ("num" is what        *)
(* select_dtypes(include=["number"]) selects, "cat" what                   *)
(* select_dtypes(include=["object"]) selects) and a row is                 *)
(*     [idx |-> index label, cells |-> <<cell, ...>>].                     *)
(* A cell is a record [k, n, d, s]: k = "na" is NaN/None, k = "num" is the *)
(* number n/d (floats are modelled as exact rationals in lowest terms),    *)
(* k = "str" is the string s.  Column names are not modelled.              *)
(***************************************************************************)
EXTENDS Integers, Sequences, FiniteSets, TLC

VARIABLES
    file,        \* the raw CSV: [status, table]
    df,          \* the DataFrame the running code holds
    pc,          \* control position of main / of the direct call
    log,         \* messages handed to the logger, oldest first
    out,         \* the prepared CSV: [written, table]
    calls,       \* the functions entered so far, in order, each with its outcome
    viewWrites,  \* did the df[col].fillna(..., inplace=True) of the last call write through to df
    arg,         \* the DataFrame passed to the function called last
    thr          \* z_threshold of the last remove_outliers call

vars == <<file, df, pc, log, out, calls, viewWrites, arg, thr>>

\* ---------------------------------------------------------------- bounds
MaxRows == 3

\* ---------------------------------------------------------------- cells
NA == [k |-> "na", n |-> 0, d |-> 1, s |-> ""]

Abs(x) == IF x < 0 THEN -x ELSE x

RECURSIVE GCD(_, _)
GCD(a, b) == IF b = 0 THEN a ELSE GCD(b, a % b)

\* the number n/d (d > 0) in lowest terms
Num(n, d) ==
    LET g == GCD(Abs(n), d)
    IN  [k |-> "num", n |-> n \div g, d |-> d \div g, s |-> ""]

Str(s) == [k |-> "str", n |-> 0, d |-> 1, s |-> s]

IsNA(c) == c.k = "na"

RAdd(x, y) == Num(x.n * y.d + y.n * x.d, x.d * y.d)
RSub(x, y) == Num(x.n * y.d - y.n * x.d, x.d * y.d)
RMul(x, y) == Num(x.n * y.n, x.d * y.d)
RDivInt(x, m) == Num(x.n, x.d * m)
RLess(x, y) == x.n * y.d < y.n * x.d

\* ---------------------------------------------------------------- tables
NumVals == {Num(1, 1), Num(2, 1)}
\* the strings of a categorical column, in sort order
CatVals == <<"x", "y">>
Rank(s) == CHOOSE i \in 1..Len(CatVals) : CatVals[i] = s

CellsOf(kind) ==
    IF kind = "num" THEN NumVals \cup {NA}
    ELSE {Str(CatVals[i]) : i \in 1..Len(CatVals)} \cup {NA}

Schemas == {<<"num">>, <<"cat">>, <<"num", "cat">>, <<"num", "num">>}

\* a freshly built DataFrame has the RangeIndex 0..n-1
MkTable(kinds, cellRows) ==
    [kinds |-> kinds,
     rows  |-> [i \in 1..Len(cellRows) |-> [idx |-> i - 1, cells |-> cellRows[i]]]]

\* the rows a table of these column kinds can hold
RECURSIVE RowCells(_)
RowCells(kinds) ==
    IF kinds = <<>> THEN {<<>>}
    ELSE {<<c>> \o r : c \in CellsOf(Head(kinds)), r \in RowCells(Tail(kinds))}

\* spec.md section 8, example scenarios 4 and 5
Scenario4 ==
    MkTable(<<"num">>, <<<<Num(10, 1)>>, <<Num(12, 1)>>, <<Num(11, 1)>>,
                         <<Num(13, 1)>>, <<Num(1000, 1)>>>>)
Scenario5 ==
    MkTable(<<"num">>, <<<<Num(5, 1)>>, <<Num(5, 1)>>, <<Num(5, 1)>>, <<Num(5, 1)>>>>)

Scenarios == {Scenario4, Scenario5}

NumericCols(T) == SelectSeq([c \in 1..Len(T.kinds) |-> c], LAMBDA c : T.kinds[c] = "num")
CategoricalCols(T) == SelectSeq([c \in 1..Len(T.kinds) |-> c], LAMBDA c : T.kinds[c] = "cat")

\* the cells of column c, top to bottom
Column(T, c) == [i \in 1..Len(T.rows) |-> T.rows[i].cells[c]]

\* ---------------------------------------------------------------- logger
\* one logger call: the message, and the column, value and count it formats
Msg(m, col, val, cnt) == [msg |-> m, col |-> col, val |-> val, cnt |-> cnt]

\* ---------------------------------------------------------------- remove_duplicates
\* DataFrame.drop_duplicates(): keep="first"; rows are compared on all
\* columns, a missing cell equal to a missing cell; the index labels and
\* the order of the surviving rows are kept.
RECURSIVE DropDupScan(_, _, _)
DropDupScanResetSeen(rows, i, seen) ==
    IF i > Len(rows) THEN <<>>
    ELSE IF rows[i].cells \in seen
         THEN DropDupScan(rows, i + 1, {})
         ELSE <<rows[i]>> \o DropDupScan(rows, i + 1, seen \cup {rows[i].cells})

DropDupScan(rows, i, seen) ==
    IF i > Len(rows) THEN <<>>
    ELSE IF rows[i].cells \in seen
         THEN DropDupScan(rows, i + 1, seen)
         ELSE <<rows[i]>> \o DropDupScan(rows, i + 1, seen \cup {rows[i].cells})

\* keep="last" instead of keep="first"
DropDuplicatesKeepLast(T) ==
    [T EXCEPT !.rows =
        SelectSeq(T.rows, LAMBDA r :
            ~ \E j \in 1..Len(T.rows) :
                T.rows[j].idx > r.idx /\ T.rows[j].cells = r.cells)]

\* no row dropped
DropDuplicatesNone(T) == T

DropDuplicates(T) == [T EXCEPT !.rows = DropDupScan(T.rows, 1, {})]

\* the returned DataFrame and the logger calls of remove_duplicates(df)
remove_duplicates(T) ==
    LET cleaned == DropDuplicates(T)
    IN  [df     |-> cleaned,
         log    |-> <<Msg("Removed duplicate rows", 0, NA, Len(T.rows) - Len(cleaned.rows))>>,
         raised |-> FALSE]

\* ---------------------------------------------------------------- handle_missing_values
RECURSIVE SumSeq(_, _)
SumSeq(cells, i) ==
    IF i > Len(cells) THEN Num(0, 1)
    ELSE IF IsNA(cells[i]) THEN SumSeq(cells, i + 1)
         ELSE RAdd(cells[i], SumSeq(cells, i + 1))

CountPresent(cells) == Cardinality({i \in 1..Len(cells) : ~IsNA(cells[i])})

\* Series.mean(): skips missing cells; NaN when none is left
Mean(cells) ==
    IF CountPresent(cells) = 0 THEN NA
    ELSE RDivInt(SumSeq(cells, 1), CountPresent(cells))

Freq(cells, v) == Cardinality({i \in 1..Len(cells) : cells[i] = v})

\* Series.mode(): the most frequent non-missing values, sorted ascending
Mode(cells) ==
    LET present == {cells[i] : i \in {j \in 1..Len(cells) : ~IsNA(cells[j])}}
        modes   == {v \in present : \A w \in present : Freq(cells, w) <= Freq(cells, v)}
    IN  SelectSeq([i \in 1..Len(CatVals) |-> Str(CatVals[i])], LAMBDA v : v \in modes)

\* df[col].fillna(value, inplace=True): the missing cells of column c become
\* value when the column object df[col] is a view of df, and df is untouched
\* when it is a copy.  pandas does not fix which: the fill writes through in
\* pandas 1.x/2.x and never does under Copy-on-Write (pandas 3), so the
\* callers below take writes from BOOLEAN.
FillNA(T, c, value, writes) ==
    IF writes
    THEN [T EXCEPT !.rows =
            [i \in 1..Len(T.rows) |->
                IF IsNA(T.rows[i].cells[c])
                THEN [T.rows[i] EXCEPT !.cells[c] = value]
                ELSE T.rows[i]]]
    ELSE T

\* lines 91-94: the loop over the numeric columns, from position k of cols
RECURSIVE FillNumeric(_, _, _, _, _)
FillNumeric(T, cols, k, writes, lg) ==
    IF k > Len(cols) THEN [df |-> T, log |-> lg, raised |-> FALSE]
    ELSE LET mean_value == Mean(Column(T, cols[k]))
         IN  FillNumeric(FillNA(T, cols[k], mean_value, writes), cols, k + 1, writes,
                         Append(lg, Msg("Filled missing values with mean", cols[k], mean_value, 0)))

\* lines 97-100: the loop over the object columns; mode()[0] of a column
\* without a non-missing cell raises KeyError
RECURSIVE FillCategorical(_, _, _, _, _)
FillCategorical(T, cols, k, writes, lg) ==
    IF k > Len(cols) THEN [df |-> T, log |-> lg, raised |-> FALSE]
    ELSE LET modes == Mode(Column(T, cols[k]))
         IN  IF Len(modes) = 0
             THEN [df |-> T, log |-> lg, raised |-> TRUE]
             ELSE FillCategorical(FillNA(T, cols[k], modes[1], writes), cols, k + 1, writes,
                                  Append(lg, Msg("Filled missing values with mode", cols[k], modes[1], 0)))

\* the DataFrame df is left as (it is mutated in place and returned), the
\* logger calls, and whether the call raised
handle_missing_values(T, writes) ==
    LET afterNum == FillNumeric(T, NumericCols(T), 1, writes, <<>>)
    IN  FillCategorical(afterNum.df, CategoricalCols(T), 1, writes, afterNum.log)

\* ---------------------------------------------------------------- remove_outliers
\* thresholds are rationals p/q, written <<p, q>> with q > 0
DefaultZThreshold == <<3, 1>>
Thresholds == {<<1, 2>>, <<1, 1>>, <<3, 2>>, DefaultZThreshold}
ThrLeq(t1, t2) == t1[1] * t2[2] <= t2[1] * t1[2]

HasNA(cells) == \E i \in 1..Len(cells) : IsNA(cells[i])
IsConst(cells) == \A i \in 1..Len(cells) : cells[i] = cells[1]

\* a.mean(axis=0): the sum over all rows divided by the number of rows
PopMean(cells) == RDivInt(SumSeq(cells, 1), Len(cells))

RECURSIVE SumSqDev(_, _, _)
SumSqDev(cells, mu, i) ==
    IF i > Len(cells) THEN Num(0, 1)
    ELSE RAdd(RMul(RSub(cells[i], mu), RSub(cells[i], mu)), SumSqDev(cells, mu, i + 1))

\* the variance divided by the number of rows once more
PopVarOverN(cells) ==
    RDivInt(RDivInt(SumSqDev(cells, PopMean(cells), 1), Len(cells)), Len(cells))

\* a.std(axis=0, ddof=0) squared: the population variance
PopVar(cells) == RDivInt(SumSqDev(cells, PopMean(cells), 1), Len(cells))

\* stats.zscore of one column, each z squared (abs is taken next, so the sign
\* is not needed): NaN throughout a column that holds a NaN or is constant
ZScoreSq(cells) ==
    IF HasNA(cells) \/ IsConst(cells)
    THEN [i \in 1..Len(cells) |-> NA]
    ELSE LET mu  == PopMean(cells)
             var == PopVar(cells)
         IN  [i \in 1..Len(cells) |->
                LET dev2 == RMul(RSub(cells[i], mu), RSub(cells[i], mu))
                IN  Num(dev2.n * var.d, dev2.d * var.n)]

\* abs(z) > z_threshold
ZExceeds(z2, t) ==
    ~IsNA(z2) /\ (t[1] <= 0 \/ RLess(Num(t[1] * t[1], t[2] * t[2]), z2))

\* abs(z) < z_threshold, on the squares; False when z is NaN
ZWithin(z2, t) ==
    ~IsNA(z2) /\ t[1] > 0 /\ RLess(z2, Num(t[1] * t[1], t[2] * t[2]))

\* the boolean mask of line 112: .all(axis=1) over the numeric columns (True
\* for every row when there is none)
KeepMask(T, t) ==
    LET cols == NumericCols(T)
        z2   == [k \in 1..Len(cols) |-> ZScoreSq(Column(T, cols[k]))]
    IN  [i \in 1..Len(T.rows) |-> \A k \in 1..Len(cols) : ZWithin(z2[k][i], t)]

RECURSIVE Filter(_, _, _)
Filter(rows, mask, i) ==
    IF i > Len(rows) THEN <<>>
    ELSE (IF mask[i] THEN <<rows[i]>> ELSE <<>>) \o Filter(rows, mask, i + 1)

remove_outliers(T, t) ==
    LET cleaned == [T EXCEPT !.rows = Filter(T.rows, KeepMask(T, t), 1)]
    IN  [df     |-> cleaned,
         log    |-> <<Msg("FUNCTION START: remove_outliers", 0, NA, Len(T.rows)),
                      Msg("Removed outlier rows", 0, NA, Len(T.rows) - Len(cleaned.rows)),
                      Msg("FUNCTION END: remove_outliers", 0, NA, 0)>>,
         raised |-> FALSE]

\* ---------------------------------------------------------------- the raw file
NoTable == MkTable(<<>>, <<>>)
NoOutput == [written |-> FALSE, table |-> NoTable]

\* what pd.read_csv can return: a column without a non-missing cell is read
\* as float64, and every column of a file without data rows as object
CsvReadable(T) ==
    IF Len(T.rows) = 0
    THEN \A c \in 1..Len(T.kinds) : T.kinds[c] = "cat"
    ELSE \A c \in 1..Len(T.kinds) : T.kinds[c] = "cat" => CountPresent(Column(T, c)) > 0

FailedRead(st) == [status |-> st, table |-> NoTable]
Parsed(T) == [status |-> "ok", table |-> T]

\* ---------------------------------------------------------------- main
\* one entry of calls: the function entered and whether it raised
Call(fn, raised) == [fn |-> fn, raised |-> raised]

\* an exception raised by a callee is caught nowhere: it ends the run
PropagateSwallowed(raised, next, fail) == next

Propagate(raised, next, fail) == IF raised THEN fail ELSE next

Init ==
    /\ \/ \E st \in {"absent", "empty", "malformed"} : file = FailedRead(st)
       \/ \E T \in Scenarios : file = Parsed(T)
       \/ \E kinds \in Schemas, n \in 0..MaxRows :
             \E rs \in [1..n -> RowCells(kinds)] :
                /\ CsvReadable(MkTable(kinds, rs))
                /\ file = Parsed(MkTable(kinds, rs))
    /\ viewWrites = FALSE
    /\ df = NoTable
    /\ pc = "start"
    /\ log = <<>>
    /\ out = NoOutput
    /\ calls = <<>>
    /\ arg = NoTable
    /\ thr = DefaultZThreshold

\* line 137: df = read_raw_data(input_file)
ReadRawData ==
    /\ pc = "start"
    /\ calls' = Append(calls, Call("read_raw_data", file.status # "ok"))
    /\ IF file.status = "absent"
       THEN /\ log' = Append(log, Msg("File not found", 0, NA, 0))
            /\ pc' = Propagate(TRUE, "read", "failed")
            /\ df' = df
       ELSE IF file.status = "empty"
       THEN /\ log' = log \o <<Msg("Reading data", 0, NA, 0), Msg("File is empty", 0, NA, 0)>>
            /\ pc' = Propagate(TRUE, "read", "failed")
            /\ df' = df
       ELSE IF file.status = "malformed"
       THEN /\ log' = log \o <<Msg("Reading data", 0, NA, 0), Msg("Error parsing CSV file", 0, NA, 0)>>
            /\ pc' = Propagate(TRUE, "read", "failed")
            /\ df' = df
       ELSE /\ log' = log \o <<Msg("Reading data", 0, NA, 0),
                               Msg("Loaded dataframe", 0, NA, Len(file.table.rows))>>
            /\ pc' = Propagate(FALSE, "read", "failed")
            /\ df' = file.table
    /\ UNCHANGED <<file, out, viewWrites, arg, thr>>

\* line 153: df = remove_duplicates(df)
RemoveDuplicatesStep ==
    /\ pc = "read"
    /\ LET r == remove_duplicates(df)
       IN  /\ df' = r.df
           /\ log' = log \o r.log
           /\ pc' = Propagate(r.raised, "deduped", "failed")
           /\ calls' = Append(calls, Call("remove_duplicates", r.raised))
    /\ arg' = df
    /\ UNCHANGED <<file, out, viewWrites, thr>>

\* line 154: df = handle_missing_values(df)
HandleMissingValuesStep ==
    /\ pc = "deduped"
    /\ \E writes \in BOOLEAN :
          LET r == handle_missing_values(df, writes)
          IN  /\ df' = r.df
              /\ log' = log \o r.log
              /\ pc' = Propagate(r.raised, "imputed", "failed")
              /\ calls' = Append(calls, Call("handle_missing_values", r.raised))
              /\ viewWrites' = writes
    /\ arg' = df
    /\ UNCHANGED <<file, out, thr>>

\* line 155: df = remove_outliers(df)
RemoveOutliersStep ==
    /\ pc = "imputed"
    /\ LET r == remove_outliers(df, DefaultZThreshold)
       IN  /\ df' = r.df
           /\ log' = log \o r.log
           /\ pc' = Propagate(r.raised, "filtered", "failed")
           /\ calls' = Append(calls, Call("remove_outliers", r.raised))
    /\ arg' = df
    /\ thr' = DefaultZThreshold
    /\ UNCHANGED <<file, out, viewWrites>>

\* line 157: save_prepared_data(df, output_file); to_csv may fail
SavePreparedData ==
    /\ pc = "filtered"
    /\ arg' = df
    /\ \E written \in BOOLEAN :
          /\ calls' = Append(calls, Call("save_prepared_data", ~written))
          /\ IF written
             THEN /\ out' = [written |-> TRUE, table |-> df]
                  /\ log' = Append(log, Msg("Saved prepared data", 0, NA, 0))
                  /\ pc' = Propagate(FALSE, "saved", "failed")
             ELSE /\ out' = out
                  /\ log' = Append(log, Msg("Failed to save prepared data", 0, NA, 0))
                  /\ pc' = Propagate(TRUE, "saved", "failed")
    /\ UNCHANGED <<file, df, viewWrites, thr>>

Next ==
    \/ ReadRawData
    \/ RemoveDuplicatesStep
    \/ HandleMissingValuesStep
    \/ RemoveOutliersStep
    \/ SavePreparedData

Spec == Init /\ [][Next]_vars

\* ---------------------------------------------------------------- direct calls
\* one call of a cleaning function on a DataFrame built by the caller
NoFile == FailedRead("absent")

CallInit ==
    /\ \/ df \in Scenarios
       \/ \E kinds \in Schemas, n \in 0..MaxRows :
             \E rs \in [1..n -> RowCells(kinds)] : df = MkTable(kinds, rs)
    /\ viewWrites = FALSE
    /\ file = NoFile
    /\ pc = "ready"
    /\ log = <<>>
    /\ out = NoOutput
    /\ calls = <<>>
    /\ arg = NoTable
    /\ thr = DefaultZThreshold

CallRemoveDuplicates ==
    /\ pc = "ready"
    /\ LET r == remove_duplicates(df)
       IN  /\ df' = r.df
           /\ log' = log \o r.log
           /\ pc' = Propagate(r.raised, "returned", "raised")
           /\ calls' = Append(calls, Call("remove_duplicates", r.raised))
    /\ arg' = df
    /\ UNCHANGED <<file, out, viewWrites, thr>>

CallHandleMissingValues ==
    /\ pc = "ready"
    /\ \E writes \in BOOLEAN :
          LET r == handle_missing_values(df, writes)
          IN  /\ df' = r.df
              /\ log' = log \o r.log
              /\ pc' = Propagate(r.raised, "returned", "raised")
              /\ calls' = Append(calls, Call("handle_missing_values", r.raised))
              /\ viewWrites' = writes
    /\ arg' = df
    /\ UNCHANGED <<file, out, thr>>

CallRemoveOutliers ==
    /\ pc = "ready"
    /\ \E t \in Thresholds :
          LET r == remove_outliers(df, t)
          IN  /\ df' = r.df
              /\ log' = log \o r.log
              /\ pc' = Propagate(r.raised, "returned", "raised")
              /\ calls' = Append(calls, Call("remove_outliers", r.raised))
              /\ thr' = t
    /\ arg' = df
    /\ UNCHANGED <<file, out, viewWrites>>

CallNext ==
    \/ CallRemoveDuplicates
    \/ CallHandleMissingValues
    \/ CallRemoveOutliers

CallSpec == CallInit /\ [][CallNext]_vars

Returned(fn) == pc = "returned" /\ calls = <<Call(fn, FALSE)>>

\* ================================================================ properties
\* ---------------------------------------------------------------- vocabulary
SameCells(r1, r2) == r1.cells = r2.cells

\* no two rows of T equal in every column
NoEqualRows(T) ==
    \A i, j \in 1..Len(T.rows) : i # j => ~SameCells(T.rows[i], T.rows[j])

NoMissingCell(T) ==
    \A i \in 1..Len(T.rows) : \A c \in 1..Len(T.kinds) : ~IsNA(T.rows[i].cells[c])

\* column c of T has rows and every cell of it is missing
EntirelyMissing(T, c) ==
    Len(T.rows) > 0 /\ \A i \in 1..Len(T.rows) : IsNA(T.rows[i].cells[c])

\* column c of T has at least one non-missing cell
HasValue(T, c) == \E i \in 1..Len(T.rows) : ~IsNA(T.rows[i].cells[c])

IndexOf(T) == [i \in 1..Len(T.rows) |-> T.rows[i].idx]

\* the row of T carrying index label x
RowAt(T, x) == CHOOSE r \in {T.rows[i] : i \in 1..Len(T.rows)} : r.idx = x

RECURSIVE SumOver(_, _)
SumOver(f, n) == IF n = 0 THEN 0 ELSE f[n] + SumOver(f, n - 1)

RECURSIVE ProdOver(_, _)
ProdOver(f, n) == IF n = 0 THEN 1 ELSE f[n] * ProdOver(f, n - 1)

\* the cells of a numeric column without missing cell, as integers over the
\* common denominator ProdOver(d)
Scaled(cells) ==
    LET D == ProdOver([i \in 1..Len(cells) |-> cells[i].d], Len(cells))
    IN  [i \in 1..Len(cells) |-> cells[i].n * (D \div cells[i].d)]

\* |cells[i] - mu| / sigma < p/q for the population mean mu and the population
\* standard deviation sigma > 0 of cells; with n cells x of sum S:
\* q^2 * (n*x[i] - S)^2 < p^2 * (n * sum(x^2) - S^2)
AbsZBelow(cells, i, t) ==
    LET x  == Scaled(cells)
        n  == Len(cells)
        S  == SumOver(x, n)
        S2 == SumOver([k \in 1..n |-> x[k] * x[k]], n)
    IN  /\ t[1] > 0
        /\ t[2] * t[2] * (n * x[i] - S) * (n * x[i] - S) < t[1] * t[1] * (n * S2 - S * S)

\* sigma = 0: a column with rows, without missing cell, all cells equal
ConstantColumn(T, c) ==
    /\ T.kinds[c] = "num"
    /\ Len(T.rows) > 0
    /\ \A i \in 1..Len(T.rows) : ~IsNA(T.rows[i].cells[c]) /\ T.rows[i].cells[c] = T.rows[1].cells[c]

\* sigma > 0 and defined
ProperColumn(T, c) ==
    /\ T.kinds[c] = "num"
    /\ \A i \in 1..Len(T.rows) : ~IsNA(T.rows[i].cells[c])
    /\ \E i \in 1..Len(T.rows) : T.rows[i].cells[c] # T.rows[1].cells[c]

\* ---------------------------------------------------------------- C1
\* C1: when handle_missing_values returns for a table in which no column is
\* entirely missing, every cell of every column of the returned table is
\* non-missing.
C1_NoMissingValueSurvives ==
    (/\ Returned("handle_missing_values")
     /\ \A c \in 1..Len(arg.kinds) : HasValue(arg, c))
    => NoMissingCell(df)

\* the same under the reading in which df[col] is a view of df
C1_HoldsWhenColumnIsView ==
    (/\ Returned("handle_missing_values")
     /\ viewWrites
     /\ \A c \in 1..Len(arg.kinds) : HasValue(arg, c))
    => NoMissingCell(df)

\* ---------------------------------------------------------------- C5
\* C5: for an entirely missing column handle_missing_values never reports a
\* fill whose value is the undefined mean or mode: it raises, or it logs no
\* fill for that column.
C5_NoFillWithUndefinedStatistic ==
    (/\ pc \in {"returned", "raised"}
     /\ Len(calls) = 1 /\ calls[1].fn = "handle_missing_values")
    => \A c \in 1..Len(arg.kinds) :
          EntirelyMissing(arg, c)
          => ~ \E k \in 1..Len(log) : log[k].col = c /\ IsNA(log[k].val)

\* ---------------------------------------------------------------- C6
\* the arithmetic mean of the non-missing cells, over the common denominator
ArithmeticMean(cells) ==
    LET present == SelectSeq(cells, LAMBDA v : ~IsNA(v))
        x       == Scaled(present)
        D       == ProdOver([i \in 1..Len(present) |-> present[i].d], Len(present))
    IN  Num(SumOver(x, Len(present)), D * Len(present))

\* v is a most frequent non-missing value of cells, the first in sort order
\* among those
IsFirstMode(cells, v) ==
    /\ ~IsNA(v) /\ Freq(cells, v) > 0
    /\ \A i \in 1..Len(cells) :
          ~IsNA(cells[i]) =>
             \/ Freq(cells, cells[i]) < Freq(cells, v)
             \/ Freq(cells, cells[i]) = Freq(cells, v) /\ Rank(v.s) <= Rank(cells[i].s)

\* C6: when handle_missing_values returns, the rows are the same in number
\* and order, and in every column with a non-missing value each missing cell
\* holds the mean of the non-missing values (numeric column) or their most
\* frequent value, the first reported among ties (categorical column), and
\* each non-missing cell holds its old value.
C6_FillsWithMeanOrMode ==
    Returned("handle_missing_values")
    => /\ IndexOf(df) = IndexOf(arg)
       /\ df.kinds = arg.kinds
       /\ \A c \in 1..Len(arg.kinds) : \A i \in 1..Len(arg.rows) :
             HasValue(arg, c) =>
                IF ~IsNA(arg.rows[i].cells[c])
                THEN df.rows[i].cells[c] = arg.rows[i].cells[c]
                ELSE IF arg.kinds[c] = "num"
                THEN df.rows[i].cells[c] = ArithmeticMean(Column(arg, c))
                ELSE IsFirstMode(Column(arg, c), df.rows[i].cells[c])

\* the same under the reading in which df[col] is a view of df
C6_HoldsWhenColumnIsView == viewWrites => C6_FillsWithMeanOrMode

\* ---------------------------------------------------------------- C2
\* row i of T passes the test of every numeric column other than c; a
\* constant column flags no row
OtherColumnsPass(T, c, i, t) ==
    \A c2 \in 1..Len(T.kinds) :
        (c2 # c /\ T.kinds[c2] = "num")
        => \/ ConstantColumn(T, c2)
           \/ ProperColumn(T, c2) /\ AbsZBelow(Column(T, c2), i, t)

\* C2: remove_outliers removes no row on account of a constant numeric
\* column: a row whose other numeric columns are all within the threshold
\* is in the returned table, whatever the threshold.
C2_ConstantColumnRemovesNoRow ==
    Returned("remove_outliers")
    => \A c \in 1..Len(arg.kinds) : \A i \in 1..Len(arg.rows) :
          (ConstantColumn(arg, c) /\ OtherColumnsPass(arg, c, i, thr))
          => \E j \in 1..Len(df.rows) : df.rows[j] = arg.rows[i]

\* ---------------------------------------------------------------- C3
InScenario4 ==
    Returned("remove_outliers") /\ arg = Scenario4 /\ thr = DefaultZThreshold

\* C3 as stated: at the default threshold 3.0 the table whose only numeric
\* column is [10, 12, 11, 13, 1000] loses the row of 1000 and keeps the
\* other four.
C3_Scenario4DropsThe1000Row ==
    InScenario4 => df.rows = SubSeq(arg.rows, 1, 4)

\* row i of T is within the threshold in every numeric column
WithinThreshold(T, i, t) ==
    \A c \in 1..Len(T.kinds) :
        T.kinds[c] = "num" => AbsZBelow(Column(T, c), i, t)

\* C3 as amended: at the default threshold 3.0 that table keeps all five
\* rows, the row of 1000 included (its |z| is below 3); and whenever every
\* numeric column has a defined, non-zero standard deviation, the rows kept
\* are exactly those with |value - mu| / sigma < z_threshold in every numeric
\* column, in their order.
C3_Scenario4KeepsAllRows ==
    /\ InScenario4 =>
          /\ df = arg
          /\ \A i \in 1..5 : WithinThreshold(arg, i, thr)
    /\ (/\ Returned("remove_outliers")
        /\ \A c \in 1..Len(arg.kinds) : arg.kinds[c] = "num" => ProperColumn(arg, c))
       => df.rows = SelectSeq(arg.rows, LAMBDA r : WithinThreshold(arg, r.idx + 1, thr))

C3_Witness ==
    InScenario4 /\ Len(df.rows) = 5 /\ df.rows[5].cells = <<Num(1000, 1)>>

\* ---------------------------------------------------------------- C7
\* C7: remove_duplicates returns exactly the rows that are not equal in all
\* columns to an earlier row, in their original order; an empty table yields
\* an empty table.
C7_KeepsFirstOccurrences ==
    Returned("remove_duplicates")
    => /\ df.kinds = arg.kinds
       /\ df.rows = SelectSeq(arg.rows, LAMBDA r :
                       ~ \E j \in 1..Len(arg.rows) :
                           arg.rows[j].idx < r.idx /\ SameCells(arg.rows[j], r))
       /\ Len(arg.rows) = 0 => Len(df.rows) = 0

\* a later occurrence was dropped from between two surviving rows
C7_Witness ==
    /\ Returned("remove_duplicates")
    /\ Len(arg.rows) = 3 /\ Len(df.rows) = 2
    /\ SameCells(arg.rows[1], arg.rows[2])
    /\ IndexOf(df) = <<0, 2>>

\* ---------------------------------------------------------------- C8
\* C8: for thresholds t1 <= t2, every row remove_outliers keeps at t1 it
\* also keeps at t2, so the row count at t2 is at least the count at t1.
C8_ThresholdMonotone ==
    Returned("remove_outliers")
    => \A t2 \in Thresholds :
          ThrLeq(thr, t2)
          => LET wider == remove_outliers(arg, t2).df
             IN  /\ Len(wider.rows) >= Len(df.rows)
                 /\ \A i \in 1..Len(df.rows) :
                       \E j \in 1..Len(wider.rows) : wider.rows[j] = df.rows[i]

\* a larger threshold keeps strictly more rows than the call kept
C8_Witness ==
    /\ Returned("remove_outliers")
    /\ Len(df.rows) > 0
    /\ \E t2 \in Thresholds :
          ThrLeq(thr, t2) /\ Len(remove_outliers(arg, t2).df.rows) > Len(df.rows)

\* ---------------------------------------------------------------- C9
\* C9: remove_duplicates applied to the table remove_duplicates returned
\* gives that table back, the same rows in the same order.
C9_Idempotent ==
    Returned("remove_duplicates") => remove_duplicates(df).df = df

\* the first call dropped two rows
C9_Witness ==
    /\ Returned("remove_duplicates")
    /\ Len(arg.rows) - Len(df.rows) >= 2

\* ---------------------------------------------------------------- C4
Stages ==
    <<"read_raw_data", "remove_duplicates", "handle_missing_values",
      "remove_outliers", "save_prepared_data">>

\* C4: save_prepared_data is entered, and output written, only after
\* read_raw_data, remove_duplicates, handle_missing_values and
\* remove_outliers have returned, in that order; once the read or a stage
\* has raised nothing more is called and no output is written.
C4_OutputOnlyAfterAllStages ==
    /\ Len(calls) <= Len(Stages)
    /\ \A k \in 1..Len(calls) :
          /\ calls[k].fn = Stages[k]
          /\ calls[k].raised => k = Len(calls)
    /\ out.written => Len(calls) = Len(Stages) /\ ~calls[Len(calls)].raised
    /\ (Len(calls) > 0 /\ calls[Len(calls)].raised) => pc = "failed"
    /\ (pc = "failed" /\ calls[Len(calls)].fn # "save_prepared_data") => ~out.written

\* handle_missing_values raised and the run ended without output
C4_Witness ==
    /\ pc = "failed"
    /\ Len(calls) = 3 /\ calls[3].raised
    /\ ~out.written

\* ---------------------------------------------------------------- C10
\* C10 as stated: the table handed to save_prepared_data never contains two
\* rows equal in every column.
C10_OutputHasNoEqualRows ==
    calls # <<>> /\ calls[Len(calls)].fn = "save_prepared_data" => NoEqualRows(arg)

\* C10 as amended: the table handed to save_prepared_data contains no two
\* rows that were equal in every column in the input, and no two equal rows
\* at all when the input has no missing cell; rows that differed before
\* imputation only in missing cells can end up as exact duplicates.
C10_NoInputDuplicateSurvives ==
    calls # <<>> /\ calls[Len(calls)].fn = "save_prepared_data"
    => /\ \A i, j \in 1..Len(arg.rows) :
             i # j => ~SameCells(RowAt(file.table, arg.rows[i].idx),
                                 RowAt(file.table, arg.rows[j].idx))
       /\ NoMissingCell(file.table) => NoEqualRows(arg)

\* a run whose input held duplicate rows saved a table of several rows
C10_Witness ==
    /\ out.written
    /\ ~NoEqualRows(file.table)
    /\ Len(out.table.rows) >= 2

====
